---- MODULE Spec2Model ----
(***************************************************************************)
(* A model of aggregate_expenses.py: main() reads input_expenses.xlsx,     *)
(* filters the rows, aggregates them by business name and by category,     *)
(* writes output.txt and shows bar and pie charts.                         *)
(*                                                                         *)
(* Amounts are counted in quarters of a unit (Unit = 4 quarters), so every *)
(* amount and every sum of amounts is a binary fraction that IEEE doubles  *)
(* represent and add exactly; 1234.5 is the integer 4938.                  *)
(***************************************************************************)
EXTENDS Integers, Sequences, FiniteSets, TLC

\* ------------------------------------------------------------------ bounds
MaxRows == 3        \* rows of input_expenses.xlsx
MaxRules == 2       \* rows of categories.xlsx
MaxValue == 12      \* range (in quarters) of the formatter inputs of SpecFmt

Unit == 2 * 2

\* The names that occur in the spreadsheets. Python compares str by code
\* point, so "Acme" < "Other" < "Retail" < "Zed" < "acme".
BusinessNames == {"Acme", "Zed"}
RulePayees == {"Acme", "acme"}
LookupCategories == {"Retail"}
KeyOrder == <<"Acme", "Other", "Retail", "Zed", "acme">>
Rank(k) == CHOOSE i \in 1..Len(KeyOrder) : KeyOrder[i] = k

\* A spreadsheet cell holding a number is <<v>>; a blank cell (NaN) is <<>>.
NaN == <<>>
Cell(v) == <<v>>
Amounts == {-Unit, 0, Unit}
AmountCells == {NaN} \cup {Cell(v) : v \in Amounts}

RawRows == [buisness_name : BusinessNames, total_expense : AmountCells]
CategoryRows == [buisness_name : RulePayees, category : LookupCategories]

RECURSIVE SeqsUpTo(_, _)
SeqsUpTo(S, n) ==
    IF n = 0 THEN {<<>>}
    ELSE LET shorter == SeqsUpTo(S, n - 1)
         IN  shorter \cup {Append(s, x) : s \in {t \in shorter : Len(t) = n - 1}, x \in S}

Abs(x) == IF x < 0 THEN -x ELSE x

Range(s) == {s[i] : i \in 1..Len(s)}

RECURSIVE SumTotals(_)
SumTotals(rows) ==
    IF rows = <<>> THEN 0 ELSE rows[1].total_expense + SumTotals(Tail(rows))

\* ------------------------------------------------------- value formatting
Digit(d) == <<"0", "1", "2", "3", "4", "5", "6", "7", "8", "9">>[d + 1]

RECURSIVE Decimal(_)
Decimal(n) == IF n < 10 THEN Digit(n) ELSE Decimal(n \div 10) \o Digit(n % 10)

\* The ',' option of Python's format spec: a comma every three digits.
RECURSIVE Grouped(_)
Grouped(n) ==
    IF n < 1000 THEN Decimal(n)
    ELSE Grouped(n \div 1000) \o "," \o Digit((n \div 100) % 10)
                              \o Digit((n \div 10) % 10) \o Digit(n % 10)

\* The '.0f' presentation of the exact quotient num/den (num >= 0, den > 0):
\* the nearest integer, an exact half going to the even neighbour.
RoundHalfEven(num, den) ==
    LET fl == num \div den
        r2 == 2 * (num % den)
    IN  IF r2 > den \/ (r2 = den /\ fl % 2 = 1) THEN fl + 1 ELSE fl

\* '.0f' keeps the sign of a negative value whose magnitude rounds to 0.
format_int_no_decimals(value) ==
    IF 0 < value /\ value < Unit THEN "<1"
    ELSE (IF value < 0 THEN "-" ELSE "") \o Grouped(RoundHalfEven(Abs(value), Unit))

\* The integers '.0f' can print for the double nearest to num/den. The double
\* is the exact quotient up to a relative error of 2^-52, which changes the
\* printed integer only when the exact quotient is a half: then the double
\* lies on either side and either neighbour is printed. 0.005 * 100 is
\* exactly 0.5 in doubles, which prints 0.
FloatRounded(num, den) ==
    LET fl == num \div den
        r2 == 2 * (num % den)
    IN  IF r2 = den /\ fl > 0 THEN {fl, fl + 1}
        ELSE {RoundHalfEven(num, den)}

\* The sign bit of the double value / total_sum (total_sum # 0); a zero
\* value is +0.0, the sum of amounts that cancel.
QuotientNegative(value, total_sum) ==
    IF value = 0 THEN total_sum < 0 ELSE (value < 0) # (total_sum < 0)

\* The strings custom_bar_percentage can return: one, except at an exact half.
custom_bar_percentage(value, total_sum) ==
    IF total_sum = 0 THEN {"0%"}
    ELSE LET neg == QuotientNegative(value, total_sum)
             num == 100 * Abs(value)
             den == Abs(total_sum)
         IN  IF ~neg /\ 0 < num /\ 2 * num < den THEN {"<1%"}
             ELSE {(IF neg THEN "-" ELSE "") \o Decimal(m) \o "%" :
                      m \in FloatRounded(num, den)}

custom_slice_label(slice_label, slice_value, slice_pct) ==
    <<slice_label, format_int_no_decimals(slice_value), "(" \o slice_pct \o ")">>

\* ------------------------------------------------------ DataFrame operations
\* df.dropna(subset=['total_expense']): the rows whose amount cell is not blank.
dropna(rows) == SelectSeq(rows, LAMBDA r : r.total_expense # NaN)

nonzero_positive_only(rows) ==
    LET kept == SelectSeq(rows, LAMBDA r : r.total_expense[1] > 0)
    IN  [i \in 1..Len(kept) |->
            [buisness_name |-> kept[i].buisness_name,
             total_expense |-> kept[i].total_expense[1]]]

\* df[df['total_expense'] != 0], the amounts read out of their cells.
nonzero(rows) ==
    LET kept == SelectSeq(rows, LAMBDA r : r.total_expense[1] # 0)
    IN  [i \in 1..Len(kept) |->
            [buisness_name |-> kept[i].buisness_name,
             total_expense |-> kept[i].total_expense[1]]]

ReadAndFilter(rows) == nonzero(dropna(rows))

\* The keys of a groupby, in the ascending order groupby(sort=True) emits.
RECURSIVE SortedKeys(_)
SortedKeys(S) ==
    IF S = {} THEN <<>>
    ELSE LET k == CHOOSE x \in S : \A y \in S : Rank(x) <= Rank(y)
         IN  <<k>> \o SortedKeys(S \ {k})

\* df.groupby(key, as_index=False)['total_expense'].sum(): one row per key in
\* ascending key order, under a fresh RangeIndex 0..n-1.
GroupBySum(rows, column) ==
    LET keys == SortedKeys({r[column] : r \in Range(rows)})
    IN  [i \in 1..Len(keys) |->
            [index |-> i - 1,
             key |-> keys[i],
             total_expense |-> SumTotals(SelectSeq(rows, LAMBDA r : r[column] = keys[i]))]]

IndexPermutations(n) == {p \in [1..n -> 1..n] : \A i, j \in 1..n : i # j => p[i] # p[j]}

NonIncreasing(df) ==
    \A i \in 1..Len(df) - 1 : df[i].total_expense >= df[i + 1].total_expense

NonDecreasing(df) ==
    \A i \in 1..Len(df) - 1 : df[i].total_expense <= df[i + 1].total_expense

sort_values_ascending(df) ==
    {s \in {[i \in 1..Len(df) |-> df[p[i]]] : p \in IndexPermutations(Len(df))} :
        NonDecreasing(s)}

\* df.sort_values('total_expense', ascending=False): the rows keep their index
\* labels. The default kind is 'quicksort', which is not stable, so rows with
\* equal totals come out in any order.
sort_values(df) ==
    {s \in {[i \in 1..Len(df) |-> df[p[i]]] : p \in IndexPermutations(Len(df))} :
        NonIncreasing(s)}

\* df_expenses.merge(df_categories, on='buisness_name', how='left'): every
\* expense row once per lookup row of the same name, in lookup order, or once
\* with a NaN category when no lookup row has its name.
RECURSIVE merge_left(_, _)
merge_left(expenses, categories) ==
    IF expenses = <<>> THEN <<>>
    ELSE LET e == expenses[1]
             hits == SelectSeq(categories, LAMBDA c : c.buisness_name = e.buisness_name)
             joined ==
                 IF hits = <<>>
                 THEN <<[buisness_name |-> e.buisness_name,
                         total_expense |-> e.total_expense,
                         category |-> NaN]>>
                 ELSE [j \in 1..Len(hits) |->
                          [buisness_name |-> e.buisness_name,
                           total_expense |-> e.total_expense,
                           category |-> Cell(hits[j].category)]]
         IN  joined \o merge_left(Tail(expenses), categories)

\* df_merged['category'].fillna('Other')
fillna_other(merged) ==
    [i \in 1..Len(merged) |->
        [buisness_name |-> merged[i].buisness_name,
         total_expense |-> merged[i].total_expense,
         category |-> IF merged[i].category = NaN THEN "Other"
                      ELSE merged[i].category[1]]]

\* df_expenses.copy() with df_merged['category'] = 'Other'
all_other(expenses) ==
    [i \in 1..Len(expenses) |->
        [buisness_name |-> expenses[i].buisness_name,
         total_expense |-> expenses[i].total_expense,
         category |-> "Other"]]

Lower(name) == IF name = "Acme" THEN "acme" ELSE name

RECURSIVE merge_left_ignoring_case(_, _)
merge_left_ignoring_case(expenses, categories) ==
    IF expenses = <<>> THEN <<>>
    ELSE LET e == expenses[1]
             hits == SelectSeq(categories,
                         LAMBDA c : Lower(c.buisness_name) = Lower(e.buisness_name))
             joined ==
                 IF hits = <<>>
                 THEN <<[buisness_name |-> e.buisness_name,
                         total_expense |-> e.total_expense,
                         category |-> NaN]>>
                 ELSE [j \in 1..Len(hits) |->
                          [buisness_name |-> e.buisness_name,
                           total_expense |-> e.total_expense,
                           category |-> Cell(hits[j].category)]]
         IN  joined \o merge_left_ignoring_case(Tail(expenses), categories)

MergeCategoriesIgnoringCase(expenses, exists, categories) ==
    IF exists THEN fillna_other(merge_left_ignoring_case(expenses, categories))
    ELSE all_other(expenses)

\* Lines 299-305: the merged frame, given whether categories.xlsx exists.
MergeCategories(expenses, exists, categories) ==
    IF exists THEN fillna_other(merge_left(expenses, categories))
    ELSE all_other(expenses)


\* labels[i] and values[i] on a Series whose index holds integers: the row
\* whose index LABEL is i, wherever sorting has put it.
Loc(df, label) == CHOOSE r \in Range(df) : r.index = label

\* ------------------------------------------------------------------ charts
\* The sequences that take their i-th element from the i-th set.
SeqChoices(sets) ==
    {s \in [1..Len(sets) -> UNION Range(sets)] : \A i \in 1..Len(sets) : s[i] \in sets[i]}

\* plot_bar_chart and plot_bar_chart_with_details draw the same bars: bar i is
\* the row at position i, labelled with its amount and its share of the sum.
plot_bar_chart(df, title) ==
    LET total_sum == SumTotals(df)
    IN  {[kind |-> "bar",
          title |-> title,
          items |-> [i \in 1..Len(df) |->
                       [label |-> df[i].key,
                        size |-> <<df[i].total_expense, total_sum>>,
                        text |-> <<format_int_no_decimals(df[i].total_expense),
                                   "(" \o pct[i] \o ")">>]],
          note |-> "Total: " \o format_int_no_decimals(total_sum)] :
           pct \in SeqChoices([i \in 1..Len(df) |->
                                 custom_bar_percentage(df[i].total_expense, total_sum)])}

\* autopct='%0.0f%%' on 100 * fraction. ax.pie holds the fractions as float32,
\* so a share that is exactly a half prints as either neighbour.
autopct(value, total_sum) ==
    LET num == 100 * Abs(value)
        den == Abs(total_sum)
        fl == num \div den
        rounded == IF 2 * (num % den) = den THEN {fl, fl + 1}
                   ELSE {RoundHalfEven(num, den)}
    IN  {(IF value = 0 /\ total_sum < 0 THEN "-" ELSE "") \o Decimal(m) \o "%" :
            m \in rounded}

\* Lines 240-242.
pct_text(autotext) == IF autotext = "0%" THEN "<1%" ELSE autotext

\* Line 209: nothing is drawn for a sum of 0.
PieSkipped(df) == SumTotals(df) = 0

\* ax.pie raises ValueError on a negative wedge size (line 217).
PieRaises(df) ==
    /\ ~PieSkipped(df)
    /\ \E i \in 1..Len(df) :
          df[i].total_expense # 0 /\ (df[i].total_expense < 0) # (SumTotals(df) < 0)

\* Lines 213-244: wedge i has the size of the row at position i; its text is
\* built from labels[i] and values[i], the rows whose index label is i.
plot_fraction_pie(df, title) ==
    LET total_sum == SumTotals(df)
    IN  {[kind |-> "pie",
          title |-> title,
          items |-> [i \in 1..Len(df) |->
                       [label |-> Loc(df, i - 1).key,
                        size |-> <<df[i].total_expense, total_sum>>,
                        text |-> custom_slice_label(Loc(df, i - 1).key,
                                                    Loc(df, i - 1).total_expense,
                                                    pct_text(auto[i]))]],
          note |-> "Sum:\n" \o format_int_no_decimals(total_sum)] :
           auto \in SeqChoices([i \in 1..Len(df) |->
                                  autopct(df[i].total_expense, total_sum)])}

\* ----------------------------------------------------------- report lines
BusinessLines(df) ==
    [i \in 1..Len(df) |->
        "Business: " \o df[i].key \o ", Total: "
                     \o format_int_no_decimals(df[i].total_expense)]

\* Lines 324-329: the businesses of one category, largest total first.
cat_df(merged, cat) ==
    sort_values(GroupBySum(SelectSeq(merged, LAMBDA r : r.category = cat), "buisness_name"))

\* Lines 331-338: the (business, amount string) pairs of one breakdown.
detail_list(breakdown) ==
    [i \in 1..Len(breakdown) |->
        <<breakdown[i].key, format_int_no_decimals(breakdown[i].total_expense)>>]

\* The category_details dictionaries the loop of lines 316-338 can build.
CategoryDetails(by_category, merged) ==
    LET cats == {r.key : r \in Range(by_category)}
        lists == UNION {{detail_list(b) : b \in cat_df(merged, c)} : c \in cats}
    IN  {d \in [cats -> lists] :
            \A c \in cats : \E b \in cat_df(merged, c) : d[c] = detail_list(b)}

RECURSIVE CategoryLines(_, _)
CategoryLines(by_category, details) ==
    IF by_category = <<>> THEN <<>>
    ELSE LET cat == by_category[1].key
             pairs == details[cat]
         IN  <<"Category: " \o cat \o ", Total: "
                   \o format_int_no_decimals(by_category[1].total_expense)>>
             \o [i \in 1..Len(pairs) |->
                    "\tBusiness: " \o pairs[i][1] \o " => " \o pairs[i][2]]
             \o CategoryLines(Tail(by_category), details)

\* ------------------------------------------------------------------- state
VARIABLES
    pc,                 \* the statement of main() that runs next
    plot_by_business,   \* the flag of line 251
    input_file,         \* input_expenses.xlsx: "ok", "unreadable" or "malformed"
    raw_rows,           \* its rows
    categories_file,    \* categories.xlsx: "absent", "ok" or "malformed"
    category_rows,      \* its rows
    output_opened,      \* open("output.txt", "w") has created or emptied the file
    output_lines,       \* the lines written to output.txt
    df_expenses,
    df_by_business,
    df_merged,
    df_by_category,
    category_details,
    shown,              \* the charts plt.show() has displayed, in order
    stdout,             \* the lines printed
    aborted_at,         \* the statement that raised, once pc is "aborted"
    call                \* SpecFmt: one call of a formatter and what it returned

vars == <<pc, plot_by_business, input_file, raw_rows, categories_file, category_rows,
          output_opened, output_lines, df_expenses, df_by_business, df_merged,
          df_by_category, category_details, shown, stdout, aborted_at, call>>

inputs == <<plot_by_business, input_file, raw_rows, categories_file, category_rows>>

NoCall == [fn |-> "none", value |-> 0, total_sum |-> 0, result |-> ""]

\* Line 251 sets plot_by_business to False; it is the switch of the by-business
\* part, so the runs of both settings are explored.
Init ==
    /\ pc = "open"
    /\ plot_by_business \in BOOLEAN
    /\ input_file \in {"ok", "unreadable", "malformed"}
    /\ raw_rows \in (IF input_file = "ok" THEN SeqsUpTo(RawRows, MaxRows) ELSE {<<>>})
    /\ categories_file \in {"absent", "ok", "malformed"}
    /\ category_rows \in (IF categories_file = "ok" THEN SeqsUpTo(CategoryRows, MaxRules)
                          ELSE {<<>>})
    /\ output_opened = FALSE
    /\ output_lines = <<>>
    /\ df_expenses = <<>>
    /\ df_by_business = <<>>
    /\ df_merged = <<>>
    /\ df_by_category = <<>>
    /\ category_details = <<>>
    /\ shown = <<>>
    /\ stdout = <<>>
    /\ aborted_at = ""
    /\ call = NoCall

\* Line 260.
OpenOutput ==
    /\ pc = "open"
    /\ output_opened' = TRUE
    /\ pc' = "read"
    /\ UNCHANGED <<inputs, output_lines, df_expenses, df_by_business, df_merged,
                   df_by_category, category_details, shown, stdout, aborted_at, call>>

\* Lines 263-265 on a workbook that cannot be read (read_excel raises) or has
\* no total_expense column (dropna raises KeyError).
ReadExpensesFails ==
    /\ pc = "read"
    /\ input_file # "ok"
    /\ pc' = "aborted"
    /\ aborted_at' = pc
    /\ UNCHANGED <<inputs, output_opened, output_lines, df_expenses, df_by_business,
                   df_merged, df_by_category, category_details, shown, stdout, call>>

ReadExpensesIgnoringFlag ==
    /\ pc = "read"
    /\ input_file = "ok"
    /\ df_expenses' = ReadAndFilter(raw_rows)
    /\ pc' = "by_business"
    /\ UNCHANGED <<inputs, output_opened, output_lines, df_by_business, df_merged,
                   df_by_category, category_details, shown, stdout, aborted_at, call>>

\* Lines 263-269.
ReadExpenses ==
    /\ pc = "read"
    /\ input_file = "ok"
    /\ df_expenses' = ReadAndFilter(raw_rows)
    /\ pc' = IF plot_by_business THEN "by_business" ELSE "category_header"
    /\ UNCHANGED <<inputs, output_opened, output_lines, df_by_business, df_merged,
                   df_by_category, category_details, shown, stdout, aborted_at, call>>

AggregateByBusinessName(expenses) == sort_values(GroupBySum(expenses, "buisness_name"))

\* Lines 271-281.
AggregateByBusiness ==
    /\ pc = "by_business"
    /\ \E sorted \in AggregateByBusinessName(df_expenses) :
          /\ df_by_business' = sorted
          /\ output_lines' = output_lines
                                \o <<"=== 1) Aggregation by Business Name ===">>
                                \o BusinessLines(sorted)
    /\ pc' = "business_bar"
    /\ UNCHANGED <<inputs, output_opened, df_expenses, df_merged, df_by_category,
                   category_details, shown, stdout, aborted_at, call>>

\* Lines 284-288.
PlotBusinessBar ==
    /\ pc = "business_bar"
    /\ \E chart \in plot_bar_chart(df_by_business, "Business Name - Bar Chart") :
          shown' = Append(shown, chart)
    /\ pc' = "business_pie"
    /\ UNCHANGED <<inputs, output_opened, output_lines, df_expenses, df_by_business,
                   df_merged, df_by_category, category_details, stdout, aborted_at, call>>

\* Lines 289-293.
PlotBusinessPie ==
    /\ pc = "business_pie"
    /\ \/ /\ PieSkipped(df_by_business)
          /\ stdout' = Append(stdout,
                 "[INFO] No non-zero data for Business Name, skipping pie chart.")
          /\ pc' = "category_header"
          /\ UNCHANGED <<shown, aborted_at>>
       \/ /\ PieRaises(df_by_business)
          /\ pc' = "aborted"
          /\ aborted_at' = pc
          /\ UNCHANGED <<shown, stdout>>
       \/ /\ ~PieSkipped(df_by_business)
          /\ ~PieRaises(df_by_business)
          /\ \E chart \in plot_fraction_pie(df_by_business, "Business Name - Pie Chart") :
                shown' = Append(shown, chart)
          /\ pc' = "category_header"
          /\ UNCHANGED <<stdout, aborted_at>>
    /\ UNCHANGED <<inputs, output_opened, output_lines, df_expenses, df_by_business,
                   df_merged, df_by_category, category_details, call>>

\* Line 296.
WriteCategoryHeader ==
    /\ pc = "category_header"
    /\ output_lines' = output_lines \o <<"", "=== 2) Aggregation by Category ===">>
    /\ pc' = "merge"
    /\ UNCHANGED <<inputs, output_opened, df_expenses, df_by_business, df_merged,
                   df_by_category, category_details, shown, stdout, aborted_at, call>>

\* Lines 299-302 on a categories.xlsx without the buisness_name or the
\* category column: merge or df_merged['category'] raises KeyError.
MergeFails ==
    /\ pc = "merge"
    /\ categories_file = "malformed"
    /\ pc' = "aborted"
    /\ aborted_at' = pc
    /\ UNCHANGED <<inputs, output_opened, output_lines, df_expenses, df_by_business,
                   df_merged, df_by_category, category_details, shown, stdout, call>>

\* Lines 299-305.
Merge ==
    /\ pc = "merge"
    /\ categories_file # "malformed"
    /\ df_merged' = MergeCategories(df_expenses, categories_file = "ok", category_rows)
    /\ pc' = "by_category"
    /\ UNCHANGED <<inputs, output_opened, output_lines, df_expenses, df_by_business,
                   df_by_category, category_details, shown, stdout, aborted_at, call>>

AggregateByCategoryName(merged) == sort_values(GroupBySum(merged, "category"))

\* Lines 307-314.
AggregateByCategory ==
    /\ pc = "by_category"
    /\ df_by_category' \in AggregateByCategoryName(df_merged)
    /\ pc' = "category_report"
    /\ UNCHANGED <<inputs, output_opened, output_lines, df_expenses, df_by_business,
                   df_merged, category_details, shown, stdout, aborted_at, call>>

\* Lines 316-338.
WriteCategoryReport ==
    /\ pc = "category_report"
    /\ \E details \in CategoryDetails(df_by_category, df_merged) :
          /\ category_details' = details
          /\ output_lines' = output_lines \o CategoryLines(df_by_category, details)
    /\ pc' = "category_bar"
    /\ UNCHANGED <<inputs, output_opened, df_expenses, df_by_business, df_merged,
                   df_by_category, shown, stdout, aborted_at, call>>

\* Lines 342-347; labels.reset_index(drop=True) makes the labels positional.
PlotCategoryBar ==
    /\ pc = "category_bar"
    /\ \E chart \in plot_bar_chart(df_by_category, "Category - Bar Chart (Interactive)") :
          shown' = Append(shown, chart)
    /\ pc' = "category_pie"
    /\ UNCHANGED <<inputs, output_opened, output_lines, df_expenses, df_by_business,
                   df_merged, df_by_category, category_details, stdout, aborted_at, call>>

\* Lines 349-353.
PlotCategoryPie ==
    /\ pc = "category_pie"
    /\ \/ /\ PieSkipped(df_by_category)
          /\ stdout' = Append(stdout,
                 "[INFO] No non-zero data for Category, skipping pie chart.")
          /\ pc' = "done"
          /\ UNCHANGED <<shown, aborted_at>>
       \/ /\ PieRaises(df_by_category)
          /\ pc' = "aborted"
          /\ aborted_at' = pc
          /\ UNCHANGED <<shown, stdout>>
       \/ /\ ~PieSkipped(df_by_category)
          /\ ~PieRaises(df_by_category)
          /\ \E chart \in plot_fraction_pie(df_by_category, "Category - Pie Chart") :
                shown' = Append(shown, chart)
          /\ pc' = "done"
          /\ UNCHANGED <<stdout, aborted_at>>
    /\ UNCHANGED <<inputs, output_opened, output_lines, df_expenses, df_by_business,
                   df_merged, df_by_category, category_details, call>>

Next ==
    \/ OpenOutput
    \/ ReadExpensesFails
    \/ ReadExpenses
    \/ AggregateByBusiness
    \/ PlotBusinessBar
    \/ PlotBusinessPie
    \/ WriteCategoryHeader
    \/ MergeFails
    \/ Merge
    \/ AggregateByCategory
    \/ WriteCategoryReport
    \/ PlotCategoryBar
    \/ PlotCategoryPie

Spec == Init /\ [][Next]_vars

\* ------------------------------------------- the formatters on their own
\* Formatter inputs, in quarters: every value up to MaxValue and a few large
\* ones (999.5, 1234.5, 1234.75, -42, 50, 1,000,000 and their like).
FmtValues ==
    (-MaxValue..MaxValue)
        \cup {-4000000, -4939, -168, 200, 3998, 4000, 4938, 4939, 4000000}
FmtTotals == (-MaxValue..MaxValue) \cup {-4000, -400, 400, 800, 4000}

InitFmt ==
    /\ pc = "formatters"
    /\ plot_by_business = FALSE
    /\ input_file = "ok"
    /\ raw_rows = <<>>
    /\ categories_file = "absent"
    /\ category_rows = <<>>
    /\ output_opened = FALSE
    /\ output_lines = <<>>
    /\ df_expenses = <<>>
    /\ df_by_business = <<>>
    /\ df_merged = <<>>
    /\ df_by_category = <<>>
    /\ category_details = <<>>
    /\ shown = <<>>
    /\ stdout = <<>>
    /\ aborted_at = ""
    /\ \E v \in FmtValues, t \in FmtTotals :
          call = [fn |-> "none", value |-> v, total_sum |-> t, result |-> ""]

pipeline == <<pc, inputs, output_opened, output_lines, df_expenses, df_by_business,
              df_merged, df_by_category, category_details, shown, stdout, aborted_at>>

\* format_int_no_decimals(value), lines 41-51.
CallFormatInt ==
    /\ pc = "formatters"
    /\ call.fn = "none"
    /\ call' = [call EXCEPT !.fn = "format_int_no_decimals",
                            !.result = format_int_no_decimals(call.value)]
    /\ UNCHANGED pipeline

\* custom_bar_percentage(value, total_sum), lines 53-63.
CallBarPercentage ==
    /\ pc = "formatters"
    /\ call.fn = "none"
    /\ \E s \in custom_bar_percentage(call.value, call.total_sum) :
          call' = [call EXCEPT !.fn = "custom_bar_percentage", !.result = s]
    /\ UNCHANGED pipeline

NextFmt == CallFormatInt \/ CallBarPercentage

SpecFmt == InitFmt /\ [][NextFmt]_vars

\* --------------------------------------------------------------- progress
PcOrder == <<"open", "read", "by_business", "business_bar", "business_pie",
             "category_header", "merge", "by_category", "category_report",
             "category_bar", "category_pie", "done">>
PcIndex(label) == CHOOSE i \in 1..Len(PcOrder) : PcOrder[i] = label

\* The statement at label has run to its end (a statement that raised has not).
Completed(label) ==
    /\ pc # "formatters"
    /\ PcIndex(IF pc = "aborted" THEN aborted_at ELSE pc) > PcIndex(label)

\* The run is over: main() has returned, or an exception has ended it.
Ended == pc \in {"done", "aborted"}

\* ------------------------------------------------------------------ claims
\* What the claims say of a raw row, counted from the spreadsheets themselves.
Passes(r) == r.total_expense # NaN /\ r.total_expense[1] # 0

RECURSIVE PassingSum(_, _)
PassingSum(rows, name) ==
    IF rows = <<>> THEN 0
    ELSE (IF Passes(rows[1]) /\ rows[1].buisness_name = name
          THEN rows[1].total_expense[1] ELSE 0)
         + PassingSum(Tail(rows), name)

PassingNames == {r.buisness_name : r \in {x \in Range(raw_rows) : Passes(x)}}

RECURSIVE TotalOf(_)
TotalOf(names) ==
    IF names = {} THEN 0
    ELSE LET n == CHOOSE x \in names : TRUE
         IN  PassingSum(raw_rows, n) + TotalOf(names \ {n})

Keys(df) == {r.key : r \in Range(df)}

\* The categories the lookup gives a business name: those of the lookup rows
\* with exactly that name, "Other" without such a row or without a lookup.
Resolved(name) ==
    LET hits == {c \in Range(category_rows) : c.buisness_name = name}
    IN  IF categories_file = "ok" /\ hits # {} THEN {c.category : c \in hits}
        ELSE {"Other"}

\* C1: once computed, the totals of the by-business aggregation and those of
\* the by-category aggregation each add up to the sum of the amounts of the
\* rows that pass the filter, whatever the lookup table holds.
C1_SumsAgree ==
    /\ Completed("by_category") =>
          SumTotals(df_by_category) = TotalOf(PassingNames)
    /\ (plot_by_business /\ Completed("by_business")) =>
          SumTotals(df_by_business) = TotalOf(PassingNames)

\* C2: when the run is over, the filtered frame holds exactly the raw rows whose amount is present
\* and not 0, negative ones included; a business is a key of the by-business
\* aggregation iff one of its rows passes, and its total is the sum of its
\* passing rows; a category is a key of the by-category aggregation iff it is
\* the category of a passing row.
C2_FilterKeepsNonZero ==
    Ended =>
    /\ Completed("read") =>
          /\ Len(df_expenses) = Cardinality({i \in 1..Len(raw_rows) : Passes(raw_rows[i])})
          /\ \A n \in BusinessNames :
                SumTotals(SelectSeq(df_expenses, LAMBDA e : e.buisness_name = n))
                    = PassingSum(raw_rows, n)
          /\ {e.buisness_name : e \in Range(df_expenses)} = PassingNames
          /\ \A e \in Range(df_expenses) : e.total_expense # 0
    /\ (plot_by_business /\ Completed("by_business")) =>
          /\ Keys(df_by_business) = PassingNames
          /\ \A r \in Range(df_by_business) :
                r.total_expense = PassingSum(raw_rows, r.key)
    /\ Completed("by_category") =>
          Keys(df_by_category) = UNION {Resolved(n) : n \in PassingNames}

\* C2 witness: a blank row and a zero row were dropped and a negative row
\* was kept, leaving a business with a negative total.
C2_Witness ==
    /\ plot_by_business
    /\ pc = "done"
    /\ \E r \in Range(raw_rows) : r.total_expense = NaN
    /\ \E r \in Range(raw_rows) : r.total_expense = Cell(0)
    /\ \E r \in Range(df_by_business) : r.total_expense < 0
    /\ \E r \in Range(df_by_category) : r.total_expense < 0

\* C3: when the run is over, every merged row has the name of a filtered record, and the categories
\* the merged rows give a name are those of the lookup rows with exactly that
\* name, or "Other" when the lookup has no such row or does not exist; without
\* a lookup every record is "Other", once, and "Other" is the only key of the
\* by-category aggregation (its key, when any record passed the filter).
C3_CategoryResolution ==
    Ended =>
    /\ Completed("merge") =>
          /\ {m.buisness_name : m \in Range(df_merged)}
                = {e.buisness_name : e \in Range(df_expenses)}
          /\ \A e \in Range(df_expenses) :
                {m.category : m \in {x \in Range(df_merged) :
                                        x.buisness_name = e.buisness_name}}
                    = Resolved(e.buisness_name)
          /\ categories_file = "absent" =>
                /\ Len(df_merged) = Len(df_expenses)
                /\ \A i \in 1..Len(df_merged) :
                      /\ df_merged[i].category = "Other"
                      /\ df_merged[i].buisness_name = df_expenses[i].buisness_name
                      /\ df_merged[i].total_expense = df_expenses[i].total_expense
    /\ (Completed("by_category") /\ categories_file = "absent") =>
          /\ Keys(df_by_category) \subseteq {"Other"}
          /\ df_expenses # <<>> => Keys(df_by_category) = {"Other"}
          /\ Len(df_by_category) <= 1

\* C3 witness: the lookup maps "Acme" to "Retail" and has a row for "acme";
\* an "Acme" record and a "Zed" record give the categories Retail and Other.
C3_Witness ==
    /\ pc = "done"
    /\ categories_file = "ok"
    /\ \E c \in Range(category_rows) : c.buisness_name = "acme"
    /\ \E c \in Range(category_rows) : c.buisness_name = "Acme"
    /\ {e.buisness_name : e \in Range(df_expenses)} = {"Acme", "Zed"}
    /\ Keys(df_by_category) = {"Retail", "Other"}

\* C4: in the category pie chart, the text of the wedge at every position
\* names the key and the formatted total of the row that gives that wedge
\* its size, the row at the same position of the sorted aggregation.
C4_WedgeLabelledWithOwnRow ==
    \A k \in 1..Len(shown) :
        shown[k].title = "Category - Pie Chart" =>
            \A i \in 1..Len(shown[k].items) :
                /\ shown[k].items[i].size
                      = <<df_by_category[i].total_expense, SumTotals(df_by_category)>>
                /\ shown[k].items[i].text[1] = df_by_category[i].key
                /\ shown[k].items[i].text[2]
                      = format_int_no_decimals(df_by_category[i].total_expense)

\* C5: a pie chart shows for every row the percentage string that the bar
\* chart of the same aggregation, drawn just before it, shows for that row.
C5_PiePercentageIsBarPercentage ==
    \A k \in 1..Len(shown) :
        shown[k].kind = "pie" =>
            /\ k > 1
            /\ shown[k - 1].kind = "bar"
            /\ Len(shown[k - 1].items) = Len(shown[k].items)
            /\ \A i \in 1..Len(shown[k].items) :
                  /\ shown[k].items[i].size = shown[k - 1].items[i].size
                  /\ shown[k].items[i].text[3] = shown[k - 1].items[i].text[2]

\* C6: a run that aborts on the input workbook or on a malformed lookup has
\* not created or emptied output.txt, written no report text and shown no
\* chart.
C6_FatalErrorLeavesNoOutput ==
    (pc = "aborted" /\ aborted_at \in {"read", "merge"}) =>
        /\ ~output_opened
        /\ output_lines = <<>>
        /\ shown = <<>>

\* The text of an integer: its decimal digits, a minus before a negative one.
IntText(n) == (IF n < 0 THEN "-" ELSE "") \o Decimal(Abs(n))
GroupedIntText(n) == (IF n < 0 THEN "-" ELSE "") \o Grouped(Abs(n))

\* The integers nearest to num/den (den > 0): both neighbours of an exact half.
Nearest(num, den) ==
    LET fl == Abs(num) \div den
        r2 == 2 * (Abs(num) % den)
        sign == IF num < 0 THEN -1 ELSE 1
    IN  {sign * m : m \in {x \in {fl, fl + 1} :
                              (x = fl /\ r2 <= den) \/ (x = fl + 1 /\ r2 >= den)}}

\* C7: custom_bar_percentage returns "0%" for a total of 0, "<1%" for a
\* percentage above 0 and below 0.5, and otherwise the text of an integer
\* nearest to the percentage, followed by "%".
C7_PercentageText ==
    call.fn = "custom_bar_percentage" =>
        LET v == call.value
            t == call.total_sum
            num == IF t < 0 THEN -(100 * v) ELSE 100 * v
        IN  /\ t = 0 => call.result = "0%"
            /\ (t # 0 /\ 0 < num /\ 2 * num < Abs(t)) => call.result = "<1%"
            /\ (t # 0 /\ ~(0 < num /\ 2 * num < Abs(t))) =>
                  \E n \in Nearest(num, Abs(t)) : call.result = IntText(n) \o "%"
            /\ (v = Unit /\ t = 1000 * Unit) => call.result = "<1%"
            /\ (v = 50 * Unit /\ t = 100 * Unit) => call.result = "50%"

\* C8: format_int_no_decimals returns "<1" exactly for a value above 0 and
\* below 1, and otherwise the text of an integer nearest to the value, with a
\* comma every three digits and a minus before a negative one.
C8_AmountText ==
    call.fn = "format_int_no_decimals" =>
        LET v == call.value
        IN  /\ call.result = "<1" <=> (0 < v /\ v < Unit)
            /\ ~(0 < v /\ v < Unit) =>
                  \E n \in Nearest(v, Unit) : call.result = GroupedIntText(n)
            /\ v = -(42 * Unit) => call.result = "-42"

\* The place of the first row of rows that has the key k.
FirstAppearance(rows, column, k) ==
    CHOOSE i \in 1..Len(rows) :
        rows[i][column] = k /\ \A j \in 1..(i - 1) : rows[j][column] # k

\* C9 as stated: each aggregation is in descending order of total, and rows
\* with equal totals stand in the order in which their keys first appear in
\* the rows that were grouped.
C9_TiesKeepFirstAppearance ==
    /\ (plot_by_business /\ Completed("by_business")) =>
          /\ NonIncreasing(df_by_business)
          /\ \A i \in 1..Len(df_by_business) - 1 :
                df_by_business[i].total_expense = df_by_business[i + 1].total_expense =>
                    FirstAppearance(df_expenses, "buisness_name", df_by_business[i].key)
                        < FirstAppearance(df_expenses, "buisness_name", df_by_business[i + 1].key)
    /\ Completed("by_category") =>
          /\ NonIncreasing(df_by_category)
          /\ \A i \in 1..Len(df_by_category) - 1 :
                df_by_category[i].total_expense = df_by_category[i + 1].total_expense =>
                    FirstAppearance(df_merged, "category", df_by_category[i].key)
                        < FirstAppearance(df_merged, "category", df_by_category[i + 1].key)

\* The place of a line in output.txt.
LineAt(line) == CHOOSE n \in 1..Len(output_lines) : output_lines[n] = line

\* The report line of an aggregation row: "Business: " or "Category: ", the
\* key and the formatted total.
ReportLine(heading, r) ==
    heading \o r.key \o ", Total: " \o format_int_no_decimals(r.total_expense)

\* The rows of df, one per key, are written as report lines, in the order
\* of df.
WrittenInOrder(df, heading) ==
    /\ \A i \in 1..Len(df) : ReportLine(heading, df[i]) \in Range(output_lines)
    /\ \A i \in 1..Len(df) - 1 :
          LineAt(ReportLine(heading, df[i])) < LineAt(ReportLine(heading, df[i + 1]))

\* Chart k draws the rows of df, in the order of df.
DrawnInOrder(k, df) ==
    /\ Len(shown[k].items) = Len(df)
    /\ \A i \in 1..Len(df) :
          shown[k].items[i].size = <<df[i].total_expense, SumTotals(df)>>
    /\ shown[k].kind = "bar" =>
          \A i \in 1..Len(df) : shown[k].items[i].label = df[i].key

\* C9 as amended: when the run is over, each aggregation it computed has one
\* row per key, in descending order of total; the report lists the rows, and
\* the charts draw their bars and wedge sizes, in that order; the businesses
\* listed under a category are in descending order of total.
C9_DescendingOrder ==
    Ended =>
    /\ (plot_by_business /\ Completed("by_business")) =>
          /\ NonIncreasing(df_by_business)
          /\ Cardinality(Keys(df_by_business)) = Len(df_by_business)
          /\ WrittenInOrder(df_by_business, "Business: ")
    /\ Completed("by_category") =>
          /\ NonIncreasing(df_by_category)
          /\ Cardinality(Keys(df_by_category)) = Len(df_by_category)
    /\ Completed("category_report") =>
          /\ WrittenInOrder(df_by_category, "Category: ")
          /\ \A c \in Keys(df_by_category) :
                \E b \in {x \in cat_df(df_merged, c) : NonIncreasing(x)} :
                    category_details[c] = detail_list(b)
    /\ \A k \in 1..Len(shown) :
          /\ shown[k].title \in {"Business Name - Bar Chart", "Business Name - Pie Chart"} =>
                DrawnInOrder(k, df_by_business)
          /\ shown[k].title \in {"Category - Bar Chart (Interactive)", "Category - Pie Chart"} =>
                DrawnInOrder(k, df_by_category)

\* C9 witness: two categories were drawn after sorting had exchanged them, and
\* two businesses of equal total stand against the order of their first rows.
C9_Witness ==
    /\ pc = "done"
    /\ plot_by_business
    /\ Len(shown) = 4
    /\ Len(df_by_category) = 2
    /\ df_by_category[1].total_expense > df_by_category[2].total_expense
    /\ df_by_category[1].index = 1
    /\ Len(df_by_business) = 2
    /\ df_by_business[1].total_expense = df_by_business[2].total_expense
    /\ FirstAppearance(df_expenses, "buisness_name", df_by_business[1].key)
          > FirstAppearance(df_expenses, "buisness_name", df_by_business[2].key)

\* C10 as stated: once a chart has been shown, no report text is written.
C10_NoWriteAfterChart ==
    [][shown # <<>> => output_lines' = output_lines]_vars

BusinessChartTitles == {"Business Name - Bar Chart", "Business Name - Pie Chart"}

\* C10 as amended: report text is written after a chart only when
\* plot_by_business is set, and then only the category section after the
\* by-business charts; nothing is written once a category chart is shown.
C10_WritesBeforeCategoryCharts ==
    [][output_lines' # output_lines =>
          /\ ~plot_by_business => shown = <<>>
          /\ \A k \in 1..Len(shown) : shown[k].title \in BusinessChartTitles
          /\ shown # <<>> => pc \in {"category_header", "category_report"}]_vars

\* C10 witness: with plot_by_business set, the category section was written
\* after the by-business charts, and the category charts came after it.
C10_Witness ==
    /\ pc = "done"
    /\ plot_by_business
    /\ \E k \in 1..Len(shown) : shown[k].title \in BusinessChartTitles
    /\ \E k \in 1..Len(shown) : shown[k].title \notin BusinessChartTitles
    /\ Len(output_lines) > 4

====
